---- MODULE Spec2Model ----
(***************************************************************************)
(* Model of the price-watch bot: the in-memory watch store (models.py),    *)
(* the handlers that change it (handlers.py), the scheduler pass           *)
(* run_price_check_iteration (watcher.py) and the durable files            *)
(* (models.py: load_state, save_state).                                    *)
(*                                                                         *)
(* Units: time is in whole hours (time.time() / 3600), prices and          *)
(* thresholds are in euro cents.                                           *)
(***************************************************************************)
EXTENDS Integers, Sequences, FiniteSets, TLC

VARIABLES
    WATCHES,    \* models.WATCHES: ordered dict chat_id -> list of watch dicts
    clock,      \* what time.time() returns
    last_op,    \* the handler that ran last, with the watch it found
    tick,       \* what the last run_price_check_iteration did
    missed,     \* per candidate: consecutive ticks that did not select it
    calls,      \* handler calls so far
    disk,       \* the files data/watches.json, watches.bak.json, watches.tmp
    boot,       \* how the load_state() of the last start ended
    save_pc,    \* where a save_state() in progress stands
    save_end,   \* how the last save_state() ended
    tick_lock,  \* the trigger's mutex: the request that holds it, or 0
    requests,   \* GET /watcher-tick requests: where each one stands
    USE_KEEPA,  \* util.py:373: USE_KEEPA and KEEPA_API_KEY
    _PRICE_CACHE,   \* util._PRICE_CACHE: asin -> (ts, stats), <<>> if no entry
    seconds,    \* time.time() as the price adapter reads it, in seconds
    tasks,      \* awaited calls of get_price_data: where each one stands
    upstream    \* the requests sent to api.keepa.com, in order

vars == <<WATCHES, clock, last_op, tick, missed, calls, disk, boot, save_pc, save_end,
          tick_lock, requests, USE_KEEPA, _PRICE_CACHE, seconds, tasks, upstream>>

\* The price adapter.
pricing == <<USE_KEEPA, _PRICE_CACHE, seconds, tasks, upstream>>

\* The trigger of the pass.
trigger == <<tick_lock, requests>>

\* What the handlers and the pass leave alone.
aside == <<boot, save_pc, save_end, trigger, pricing>>

---------------------------------------------------------------------------
(* Python values.  An optional number is a tuple: None is <<>>, the number *)
(* v is <<v>>; a key that is not in the dict is Absent.                    *)

None == <<>>
Some(v) == <<v>>
Absent == <<0, 0>>
IsNumber(x) == Len(x) = 1          \* isinstance(x, (int, float))
Val(x) == x[1]
NoName == "<None>"                 \* name=None (no name given)
Truthy(s) == s # "" /\ s # NoName  \* truth value of an Optional[str]

ChatIds == {1, 2}
Asins == {"A", "B"}

\* Bounds of the model.
MAX_CHECKS_PER_TICK == 2   \* watcher.py:13 sets 40; scaled to the store's size
StartClock == 480000       \* time.time() at start, in hours
MaxAdvance == 1            \* hours that pass in a behaviour
MaxMissed == 2             \* consecutive ticks followed for one candidate
MaxCalls == 2              \* handler calls in a behaviour
MaxRequests == 2           \* GET /watcher-tick requests in a behaviour
MaxTasks == 2              \* awaited get_price_data calls in a behaviour

\* Program constants (hours).
NOTIFY_COOLDOWN_SECONDS == 12      \* 12 * 3600 s
NEVER_CHECKED_AGE == 277777777     \* 10**12 s

\* Program constants (seconds).
PRICE_CACHE_TTL_SECONDS == 300
KEEPA_TIMEOUT == 12                \* aiohttp.ClientTimeout(total=12)

Min2(a, b) == IF a <= b THEN a ELSE b
Max2(a, b) == IF a >= b THEN a ELSE b
CeilDiv(a, b) == (a + b - 1) \div b

---------------------------------------------------------------------------
(* util.py: the price source as the tick sees it.                          *)

Ord(ch) == IF ch = "A" THEN 65 ELSE IF ch = "B" THEN 66 ELSE 0

\* sum(ord(c) for c in asin); the model's product ids are one character long.
AsinBase(asin) == IF asin = "" THEN 0 ELSE Ord(asin)

\* mock_prices_from_asin(asin).price_now, in cents:
\* round(19.9 + base % 280 + (base % 9) * 0.1, 2)
mock_prices_from_asin(asin) ==
    1990 + 100 * (AsinBase(asin) % 280) + 10 * (AsinBase(asin) % 9)

\* get_price_data is declared `async def`: calling it runs none of its body
\* and returns a coroutine object.
get_price_data(asin) == [kind |-> "coroutine", asin |-> asin]

\* obj.price_now: a coroutine object has no such attribute.
price_now(obj) ==
    IF obj.kind = "PriceData" THEN [raised |-> FALSE, value |-> obj.price_now]
    ELSE [raised |-> TRUE, value |-> 0]

---------------------------------------------------------------------------
(* models.py: the store.  WATCHES is a sequence of [chat_id, items] in the *)
(* dict's insertion order.                                                 *)

HasKey(W, c) == \E k \in 1..Len(W) : W[k].chat_id = c
KeyIndex(W, c) == CHOOSE k \in 1..Len(W) : W[k].chat_id = c

\* WATCHES.get(chat_id, [])
get_watches_for_chat(W, c) == IF HasKey(W, c) THEN W[KeyIndex(W, c)].items ELSE <<>>

\* WATCHES.setdefault(chat_id, [])
setdefault(W, c) ==
    IF HasKey(W, c) THEN W ELSE Append(W, [chat_id |-> c, items |-> <<>>])

\* WATCHES[chat_id] = items
SetItems(W, c, items) ==
    IF HasKey(W, c) THEN [W EXCEPT ![KeyIndex(W, c)].items = items]
    ELSE Append(W, [chat_id |-> c, items |-> items])

\* Index of the first watch of the list with this asin, 0 if there is none.
FirstIndex(items, asin) ==
    IF \E i \in 1..Len(items) : items[i].asin = asin
    THEN CHOOSE i \in 1..Len(items) :
            /\ items[i].asin = asin
            /\ \A j \in 1..(i - 1) : items[j].asin # asin
    ELSE 0

\* get_watch(chat_id, asin): <<w>> or <<>> (None)
get_watch(W, c, asin) ==
    LET items == get_watches_for_chat(W, c)
        i == FirstIndex(items, asin)
    IN  IF i = 0 THEN <<>> ELSE <<items[i]>>

\* The dict literal of ensure_watch and set_or_update_watch: no last_checked_* keys.
NewWatch(asin, threshold, name) ==
    [asin |-> asin,
     threshold |-> threshold,
     last_notified_ts |-> 0,
     last_notified_price |-> None,
     name |-> IF Truthy(name) THEN name ELSE "",
     last_checked_price |-> Absent,
     last_checked_ts |-> Absent]

\* find_name_for_asin(asin): first non-empty name in iteration order, or None.
RECURSIVE FindNameFrom(_, _, _, _)
FindNameFrom(W, k, i, asin) ==
    IF k > Len(W) THEN NoName
    ELSE IF i > Len(W[k].items) THEN FindNameFrom(W, k + 1, 1, asin)
    ELSE IF W[k].items[i].asin = asin /\ W[k].items[i].name # ""
         THEN W[k].items[i].name
    ELSE FindNameFrom(W, k, i + 1, asin)

find_name_for_asin(W, asin) == FindNameFrom(W, 1, 1, asin)

\* The loop of lines 158-163 never matching: a watch is appended every time.
ensure_watch_NoLookup(W, c, asin, name) ==
    LET W1 == setdefault(W, c)
        items == get_watches_for_chat(W1, c)
    IN  [W |-> SetItems(W1, c, Append(items, NewWatch(asin, None, name))),
         saved |-> 1]

\* ensure_watch written with the dict literal assigned over a watch it finds:
\* the threshold and the notification baseline of the watch are lost.
ensure_watch_Overwrites(W, c, asin, name) ==
    LET W1 == setdefault(W, c)
        items == get_watches_for_chat(W1, c)
        i == FirstIndex(items, asin)
    IN  IF i # 0
        THEN [W |-> SetItems(W1, c, [items EXCEPT ![i] = NewWatch(asin, None, name)]),
              saved |-> 1]
        ELSE [W |-> SetItems(W1, c, Append(items, NewWatch(asin, None, name))),
              saved |-> 1]

\* ensure_watch(chat_id, asin, name): the store it leaves and its save_state calls.
ensure_watch(W, c, asin, name) ==
    LET W1 == setdefault(W, c)
        items == get_watches_for_chat(W1, c)
        i == FirstIndex(items, asin)
    IN  IF i # 0
        THEN IF Truthy(name) /\ items[i].name = ""
             THEN [W |-> SetItems(W1, c, [items EXCEPT ![i].name = name]), saved |-> 1]
             ELSE [W |-> W1, saved |-> 0]
        ELSE [W |-> SetItems(W1, c, Append(items, NewWatch(asin, None, name))),
              saved |-> 1]

\* Lines 196-197 forgotten: the notification baseline survives a new threshold.
set_or_update_watch_NoReset(W, c, asin, threshold, name) ==
    LET W1 == setdefault(W, c)
        items == get_watches_for_chat(W1, c)
        i == FirstIndex(items, asin)
    IN  IF i # 0
        THEN [W |-> SetItems(W1, c,
                     [items EXCEPT ![i].threshold = threshold,
                                   ![i].name = IF name # NoName THEN name ELSE @]),
              saved |-> 1]
        ELSE [W |-> SetItems(W1, c, Append(items, NewWatch(asin, threshold, name))),
              saved |-> 1]

\* set_or_update_watch(chat_id, asin, threshold, name)
set_or_update_watch(W, c, asin, threshold, name) ==
    LET W1 == setdefault(W, c)
        items == get_watches_for_chat(W1, c)
        i == FirstIndex(items, asin)
    IN  IF i # 0
        THEN [W |-> SetItems(W1, c,
                     [items EXCEPT ![i].threshold = threshold,
                                   ![i].name = IF name # NoName THEN name ELSE @,
                                   ![i].last_notified_ts = 0,
                                   ![i].last_notified_price = None]),
              saved |-> 1]
        ELSE [W |-> SetItems(W1, c, Append(items, NewWatch(asin, threshold, name))),
              saved |-> 1]

---------------------------------------------------------------------------
(* models.py: load_state and save_state.  A file is missing, holds a JSON  *)
(* object (a document: a sequence of [key, items], the keys being strings),*)
(* holds text json.load cannot parse (a write that stopped half way), or   *)
(* holds a non-empty JSON list.                                            *)

NoFile == [kind |-> "missing", doc |-> <<>>]
Partial == [kind |-> "partial", doc |-> <<>>]
JsonList == [kind |-> "list", doc |-> <<>>]
JsonDict(doc) == [kind |-> "dict", doc |-> doc]

\* Path.exists()
Exists(file) == file.kind # "missing"

\* json.load(f) returns a value: the file is there and parses.
Parses(file) == file.kind \in {"dict", "list"}

\* The key json.dump writes for an int key.
str(c) == IF c = 1 THEN "1" ELSE IF c = 2 THEN "2" ELSE IF c = 3 THEN "3" ELSE "0"

\* int(chat_id_str): <<n>>, or <<>> when it raises.
int(k) ==
    IF k = "1" THEN <<1>> ELSE IF k = "2" THEN <<2>> ELSE IF k = "3" THEN <<3>>
    ELSE IF k = "0" THEN <<0>> ELSE <<>>

\* last_notified_ts of a watch written before the key existed.
NoTs == 0 - 1

\* Lines 79-86: the keys a watch may lack are filled in.
FixWatch(w) ==
    [w EXCEPT !.last_notified_price = IF @ = Absent THEN None ELSE @,
              !.last_notified_ts = IF @ = NoTs THEN 0 ELSE @,
              !.threshold = IF @ = Absent THEN None ELSE @,
              !.name = IF @ = NoName THEN "" ELSE @]

FixItems(items) == [i \in 1..Len(items) |-> FixWatch(items[i])]

\* The loop putting each owner in front of those read before it: the order
\* of the owners is turned round by every load.
RECURSIVE Normalise_Prepends(_, _, _)
Normalise_Prepends(raw, n, fixed) ==
    IF n > Len(raw) THEN fixed
    ELSE IF int(raw[n].key) = <<>> THEN Normalise_Prepends(raw, n + 1, fixed)
    ELSE Normalise_Prepends(raw, n + 1,
            <<[chat_id |-> int(raw[n].key)[1], items |-> FixItems(raw[n].items)]>>
                \o fixed)

\* Lines 68-88: the loop over raw.items(), from the n-th entry on.
RECURSIVE Normalise(_, _, _)
Normalise(raw, n, fixed) ==
    IF n > Len(raw) THEN fixed
    ELSE IF int(raw[n].key) = <<>> THEN Normalise(raw, n + 1, fixed)
    ELSE Normalise(raw, n + 1, SetItems(fixed, int(raw[n].key)[1], FixItems(raw[n].items)))

\* Lines 67-92 on the value json.load returned.
LoadRaw(file, from) ==
    IF file.kind = "list" THEN [W |-> <<>>, outcome |-> "raised"]
    ELSE [W |-> Normalise(file.doc, 1, <<>>), outcome |-> from]

\* load_state(): the store it returns and where it came from.
load_state(d) ==
    IF ~Exists(d.primary) THEN [W |-> <<>>, outcome |-> "empty"]
    ELSE IF Parses(d.primary) THEN LoadRaw(d.primary, "primary")
    ELSE IF Exists(d.backup)
         THEN IF Parses(d.backup) THEN LoadRaw(d.backup, "backup")
              ELSE [W |-> <<>>, outcome |-> "empty"]
    ELSE [W |-> <<>>, outcome |-> "empty"]

\* json.dump(state, f): the document of a store.
Dump(W) == [k \in 1..Len(W) |-> [key |-> str(W[k].chat_id), items |-> W[k].items]]

\* Line 111: shutil.copy2(DATA_PATH, BACKUP_PATH), done.
CopyBackup(d) == [d EXCEPT !.backup = d.primary]

\* The temporary file opened in place of the durable one: open(DATA_PATH, "w").
OpenTmp_InPlace(d) == [d EXCEPT !.primary = Partial]

\* Line 118: open(tmp, "w") creates or truncates the temporary file.
OpenTmp(d) == [d EXCEPT !.tmp = Partial]

\* Line 119: json.dump(state, f), done.
DumpTmp(d, W) == [d EXCEPT !.tmp = JsonDict(Dump(W))]

\* Line 120: tmp.replace(DATA_PATH), the rename.
Replace(d) == [d EXCEPT !.primary = d.tmp, !.tmp = NoFile]

\* save_state() run to its end with no error.
save_state(d, W) ==
    Replace(DumpTmp(OpenTmp(IF Exists(d.primary) THEN CopyBackup(d) ELSE d), W))

---------------------------------------------------------------------------
(* watcher.py: the priority selector.                                      *)

\* w.get("last_checked_price"): None when the key is missing.
GetLastCheckedPrice(w) ==
    IF w.last_checked_price = Absent THEN None ELSE w.last_checked_price

\* w.get("last_checked_ts", 0), as a number; 0 stands for every falsy value.
GetLastCheckedTs(w) ==
    IF IsNumber(w.last_checked_ts) THEN Val(w.last_checked_ts) ELSE 0

\* Line 67 is computed in binary floating point: for some prices that are
\* exactly pct % above the threshold the quotient comes out above pct / 100.
\* Of the model's prices, (70.70 - 70.0) / 70.0 is 0.01000000000000004.
GapRoundsAbove(last_price, threshold, pct) ==
    <<last_price, threshold, pct>> \in {<<7070, 7000, 1>>}

\* gap <= pct / 100, with gap = (last_price - threshold) / threshold
\* if threshold != 0 else 999
GapAtMost(last_price, threshold, pct) ==
    IF threshold = 0 THEN FALSE
    ELSE IF threshold > 0
         THEN \/ 100 * (last_price - threshold) < pct * threshold
              \/ /\ 100 * (last_price - threshold) = pct * threshold
                 /\ ~GapRoundsAbove(last_price, threshold, pct)
    ELSE 100 * (last_price - threshold) >= pct * threshold

\* Lines 61-64 left out: a watch whose price is unknown is ranked with the
\* watches at or below their threshold.
_priority_bucket_UnknownFirst(last_price, threshold, now_ts, last_checked_ts) ==
    LET age == IF last_checked_ts = 0 THEN NEVER_CHECKED_AGE
               ELSE Max2(0, now_ts - last_checked_ts)
        bucket == IF ~IsNumber(last_price) THEN 0
                  ELSE IF Val(last_price) <= threshold
                          \/ GapAtMost(Val(last_price), threshold, 1) THEN 0
                  ELSE IF GapAtMost(Val(last_price), threshold, 5) THEN 1
                  ELSE IF GapAtMost(Val(last_price), threshold, 15) THEN 2
                  ELSE 3
    IN  <<bucket, 0 - age>>

\* _priority_bucket(last_price, threshold, now_ts, last_checked_ts): (bucket, -age)
_priority_bucket(last_price, threshold, now_ts, last_checked_ts) ==
    LET age == IF last_checked_ts = 0 THEN NEVER_CHECKED_AGE
               ELSE Max2(0, now_ts - last_checked_ts)
        bucket == IF ~IsNumber(last_price) THEN 2
                  ELSE IF Val(last_price) <= threshold
                          \/ GapAtMost(Val(last_price), threshold, 1) THEN 0
                  ELSE IF GapAtMost(Val(last_price), threshold, 5) THEN 1
                  ELSE IF GapAtMost(Val(last_price), threshold, 15) THEN 2
                  ELSE 3
    IN  <<bucket, 0 - age>>

\* The key cut to its first component: key=lambda x: x[0][0].
ScoreLess_BucketOnly(s1, s2) == s1[1] < s2[1]

\* Python's order on the score tuples: s1 < s2.
ScoreLess(s1, s2) == s1[1] < s2[1] \/ (s1[1] = s2[1] /\ s1[2] < s2[2])

\* The watches of the store in the order of the two nested loops (lines 97-98),
\* each as <<position of the chat in the dict, index in its list>>.
RECURSIVE RefsFrom(_, _, _)
RefsFrom(W, k, i) ==
    IF k > Len(W) THEN <<>>
    ELSE IF i > Len(W[k].items) THEN RefsFrom(W, k + 1, 1)
    ELSE <<(<<k, i>>)>> \o RefsFrom(W, k, i + 1)

\* Line 100 written as a truth test (if not threshold: continue): a threshold
\* of 0 is taken for a missing one.
IsCandidate_Truthy(w) ==
    IsNumber(w.threshold) /\ Val(w.threshold) # 0 /\ w.asin # ""

\* Lines 99-106: the threshold is a number and the asin is not empty.
IsCandidate(w) == IsNumber(w.threshold) /\ w.asin # ""

\* Lines 94-117: the candidate tuples (score, chat_id, w, asin, threshold); the
\* dict w is named by its index in the chat's list.
Candidate(W, r, now) ==
    LET w == W[r[1]].items[r[2]]
    IN  [score |-> _priority_bucket(GetLastCheckedPrice(w), Val(w.threshold), now,
                                    GetLastCheckedTs(w)),
         chat_id |-> W[r[1]].chat_id,
         idx |-> r[2],
         asin |-> w.asin,
         threshold |-> Val(w.threshold)]

RECURSIVE CandidatesOf(_, _, _)
CandidatesOf(W, refs, now) ==
    IF refs = <<>> THEN <<>>
    ELSE IF IsCandidate(W[Head(refs)[1]].items[Head(refs)[2]])
         THEN <<Candidate(W, Head(refs), now)>> \o CandidatesOf(W, Tail(refs), now)
    ELSE CandidatesOf(W, Tail(refs), now)

\* The candidates taken from the store as it was loaded at start, not from
\* the store of the moment.
BuildCandidates_AtBoot(W, now) == CandidatesOf(boot.W, RefsFrom(boot.W, 1, 1), now)

BuildCandidates(W, now) == CandidatesOf(W, RefsFrom(W, 1, 1), now)

\* A sort that is not stable: of two candidates with one score the later of
\* the store comes first.
RECURSIVE InsertSorted_Unstable(_, _)
InsertSorted_Unstable(x, s) ==
    IF s = <<>> THEN <<x>>
    ELSE IF ~ScoreLess(Head(s).score, x.score) THEN <<x>> \o s
    ELSE <<Head(s)>> \o InsertSorted_Unstable(x, Tail(s))

\* candidates.sort(key=lambda x: x[0]): stable, ascending by score.
RECURSIVE InsertSorted(_, _)
InsertSorted(x, s) ==
    IF s = <<>> THEN <<x>>
    ELSE IF ScoreLess(x.score, Head(s).score) THEN <<x>> \o s
    ELSE <<Head(s)>> \o InsertSorted(x, Tail(s))

RECURSIVE SortByScore(_)
SortByScore(s) ==
    IF s = <<>> THEN <<>>
    ELSE InsertSorted(s[Len(s)], SortByScore(SubSeq(s, 1, Len(s) - 1)))

\* The slice bound off by one: one watch more than the budget.
SelectOneTooMany(sorted) ==
    SubSeq(sorted, 1, Min2(Len(sorted), MAX_CHECKS_PER_TICK + 1))

\* selected = candidates[:MAX_CHECKS_PER_TICK]
Select(sorted) == SubSeq(sorted, 1, Min2(Len(sorted), MAX_CHECKS_PER_TICK))

\* The watch dict a candidate tuple holds.
WatchOf(W, cand) == get_watches_for_chat(W, cand.chat_id)[cand.idx]

---------------------------------------------------------------------------
(* watcher.py: one pass of the scheduler.                                  *)

\* The watch of a candidate tuple with last_checked_ts set.
StampChecked(W, cand, now) ==
    LET items == get_watches_for_chat(W, cand.chat_id)
    IN  SetItems(W, cand.chat_id,
                 [items EXCEPT ![cand.idx].last_checked_ts = Some(now)])

\* Lines 140-141 placed before the fetch of line 137: the staleness stamp is
\* written although the fetch then fails.
LoopOverSelectedStampFirst(W, selected, now) ==
    LET fetched == price_now(get_price_data(selected[1].asin))
    IN  CASE fetched.raised ->
            [W |-> StampChecked(W, selected[1], now), outcome |-> "raised", at |-> 1,
             price_calls |-> 1, sent |-> <<>>, saved |-> 0,
             selected |-> selected, now |-> now]

\* The loop stamping every watch of the store, selected or not, before the
\* fetch of line 137 fails.
LoopOverSelectedStampAll(W, selected, now) ==
    LET fetched == price_now(get_price_data(selected[1].asin))
        stamped == [k \in 1..Len(W) |->
                      [W[k] EXCEPT !.items =
                          [i \in 1..Len(W[k].items) |->
                              [W[k].items[i] EXCEPT !.last_checked_ts = Some(now)]]]]
    IN  CASE fetched.raised ->
            [W |-> stamped, outcome |-> "raised", at |-> 1, price_calls |-> 1,
             sent |-> <<>>, saved |-> 0, selected |-> selected, now |-> now]

\* Lines 135-198, the loop over the selected watches.  Line 137 is
\*     price_now = get_price_data(asin).price_now
\* without an await: for the first selected watch the attribute access raises
\* AttributeError, which nothing in run_price_check_iteration catches.  The
\* pass ends there: lines 139-198 (cache update, cooldown gate, notification,
\* save_state) run for no watch.  The result is the store, what the pass did
\* (price_calls, sent, saved) and where it stopped (outcome, at).
LoopOverSelected(W, selected, now) ==
    LET fetched == price_now(get_price_data(selected[1].asin))
    IN  CASE fetched.raised ->
            [W |-> W, outcome |-> "raised", at |-> 1, price_calls |-> 1,
             sent |-> <<>>, saved |-> 0, selected |-> selected, now |-> now]

\* run_price_check_iteration(bot) at time now: the store it leaves and what it did.
RunTick(W, now) ==
    LET candidates == BuildCandidates(W, now)
    IN  IF candidates = <<>>
        THEN [W |-> W, outcome |-> "no_candidates", at |-> 0, price_calls |-> 0,
              sent |-> <<>>, saved |-> 0, selected |-> <<>>, now |-> now]
        ELSE LoopOverSelected(W, Select(SortByScore(candidates)), now)

\* What the caller of run_price_check_iteration gets: the bare return of line
\* 121 gives None, as does the end of the body (line 199, no return
\* statement); the AttributeError of line 137 reaches the caller instead of
\* a value.
Returned(t) ==
    IF t.outcome = "raised" THEN [kind |-> "AttributeError"] ELSE [kind |-> "None"]

---------------------------------------------------------------------------
(* The state machine.                                                      *)

Idle == [outcome |-> "idle", at |-> 0, price_calls |-> 0, sent |-> <<>>,
         saved |-> 0, selected |-> <<>>, now |-> 0]

NoOp == [op |-> "none", chat_id |-> 0, asin |-> "", before |-> <<>>, saved |-> 0]

Op(name, c, asin, before, saved) ==
    [op |-> name, chat_id |-> c, asin |-> asin, before |-> before, saved |-> saved]

NoMissed == [r \in {} |-> 0]

\* An awaited call of get_price_data that has not been made.
Tasks == 1..MaxTasks
NoResult == [kind |-> "none", price_now |-> 0]
NewTask == [pc |-> "new", asin |-> "", now |-> 0, result |-> NoResult,
            source |-> "", fault |-> ""]

\* USE_KEEPA is off unless the environment sets it (util.py:18); the cache is
\* empty at import (util.py:23).
NoPricing ==
    /\ USE_KEEPA = FALSE
    /\ _PRICE_CACHE = [a \in Asins |-> <<>>]
    /\ seconds = 0
    /\ tasks = [k \in Tasks |-> NewTask]
    /\ upstream = <<>>

\* No GET /watcher-tick has arrived.
Requests == 1..MaxRequests
NoRequests == [i \in Requests |-> "new"]

\* The candidates of a store, each named <<chat_id, index in the chat's list>>.
CandidateKeys(W) ==
    UNION {{<<W[k].chat_id, i>> :
                i \in {j \in 1..Len(W[k].items) : IsCandidate(W[k].items[j])}} :
           k \in 1..Len(W)}

SelectedKeys(t) == {<<t.selected[n].chat_id, t.selected[n].idx>> : n \in 1..Len(t.selected)}

\* A watch record as json.load returns it from a document written earlier.
Stored(asin, threshold, notified_ts, notified_price, name, checked_price, checked_ts) ==
    [asin |-> asin,
     threshold |-> threshold,
     last_notified_ts |-> notified_ts,
     last_notified_price |-> notified_price,
     name |-> name,
     last_checked_price |-> checked_price,
     last_checked_ts |-> checked_ts]

\* The documents data/watches.json may hold at start: none, and two written by
\* an earlier run of the bot.
DurableDocs ==
    {<<>>,
     <<[chat_id |-> 1,
        items |-> <<Stored("A", Some(10000), StartClock - 11, Some(8510), "Tv",
                           Some(8510), Some(StartClock - 11)),
                    Stored("B", Some(7000), 0, None, "",
                           Some(8620), Some(StartClock - 1))>>],
       [chat_id |-> 2,
        items |-> <<Stored("", Some(10000), 0, None, "", Absent, Absent)>>]>>,
     <<[chat_id |-> 2,
        items |-> <<Stored("A", Some(10000), StartClock - 13, Some(9500), "",
                           Some(9500), Some(StartClock - 13))>>]>>}

\* The files an earlier run left: nothing, or the document it saved last.
DiskOf(W) ==
    [primary |-> IF W = <<>> THEN NoFile ELSE JsonDict(Dump(W)),
     backup |-> NoFile,
     tmp |-> NoFile]

\* The start of the process: what load_state() saw and what it returned.
Boot(d) == [saw |-> d, outcome |-> load_state(d).outcome, W |-> load_state(d).W]

\* WATCHES = load_state() at import.
Init ==
    /\ disk \in {DiskOf(W) : W \in DurableDocs}
    /\ WATCHES = load_state(disk).W
    /\ boot = Boot(disk)
    /\ save_pc = "idle"
    /\ save_end = "none"
    /\ tick_lock = 0
    /\ requests = NoRequests
    /\ NoPricing
    /\ clock = StartClock
    /\ last_op = NoOp
    /\ tick = Idle
    /\ missed = NoMissed
    /\ calls = 0

\* cb_manage, cb_backprod: ensure_watch(chat_id, asin) before the card is drawn.
cb_manage(c, asin) ==
    LET r == ensure_watch(WATCHES, c, asin, NoName)
    IN  /\ calls < MaxCalls
        /\ WATCHES' = r.W
        /\ last_op' = Op("cb_manage", c, asin, get_watch(WATCHES, c, asin), r.saved)
        /\ tick' = Idle
        /\ missed' = NoMissed
        /\ calls' = calls + 1
        /\ disk' = IF r.saved > 0 THEN save_state(disk, r.W) ELSE disk
        /\ UNCHANGED <<clock, aside>>

\* handle_message, a product link: the name is another owner's name for the
\* product or the one read off the URL.
handle_message_link(c, asin, url_name) ==
    LET found == find_name_for_asin(WATCHES, asin)
        name == IF Truthy(found) THEN found ELSE url_name
        r == ensure_watch(WATCHES, c, asin, name)
    IN  /\ calls < MaxCalls
        /\ WATCHES' = r.W
        /\ last_op' = Op("handle_message_link", c, asin, get_watch(WATCHES, c, asin), r.saved)
        /\ tick' = Idle
        /\ missed' = NoMissed
        /\ calls' = calls + 1
        /\ disk' = IF r.saved > 0 THEN save_state(disk, r.W) ELSE disk
        /\ UNCHANGED <<clock, aside>>

\* cb_setthr, and handle_message with a pending threshold: the same call.
cb_setthr(c, asin, thr) ==
    LET r == set_or_update_watch(WATCHES, c, asin, Some(thr),
                                 find_name_for_asin(WATCHES, asin))
    IN  /\ calls < MaxCalls
        /\ WATCHES' = r.W
        /\ last_op' = Op("cb_setthr", c, asin,
                         get_watch(WATCHES, c, asin), r.saved)
        /\ tick' = Idle
        /\ missed' = NoMissed
        /\ calls' = calls + 1
        /\ disk' = IF r.saved > 0 THEN save_state(disk, r.W) ELSE disk
        /\ UNCHANGED <<clock, aside>>

\* The rename with the threshold not read first (lines 318-319 left out):
\* set_or_update_watch(chat_id, asin, None, name).
handle_message_rename_NoThreshold(c, asin, text) ==
    LET item == get_watch(WATCHES, c, asin)
        r == set_or_update_watch(WATCHES, c, asin, None, text)
    IN  /\ calls < MaxCalls
        /\ WATCHES' = r.W
        /\ last_op' = Op("handle_message_rename", c, asin, item, r.saved)
        /\ tick' = Idle
        /\ missed' = NoMissed
        /\ calls' = calls + 1
        /\ disk' = IF r.saved > 0 THEN save_state(disk, r.W) ELSE disk
        /\ UNCHANGED <<clock, aside>>

\* handle_message with a pending rename of asin (cb_rename stored it).
handle_message_rename(c, asin, text) ==
    LET item == get_watch(WATCHES, c, asin)
        thr == IF item # <<>> THEN item[1].threshold ELSE None
        r == set_or_update_watch(WATCHES, c, asin, thr, text)
    IN  /\ calls < MaxCalls
        /\ WATCHES' = r.W
        /\ last_op' = Op("handle_message_rename", c, asin, item, r.saved)
        /\ tick' = Idle
        /\ missed' = NoMissed
        /\ calls' = calls + 1
        /\ disk' = IF r.saved > 0 THEN save_state(disk, r.W) ELSE disk
        /\ UNCHANGED <<clock, aside>>

\* The comprehension of line 273 with the test on the asin left out: the
\* owner's whole list goes.
cb_delete_All(c, asin) ==
    /\ calls < MaxCalls
    /\ WATCHES' = SetItems(WATCHES, c, <<>>)
    /\ last_op' = Op("cb_delete", c, asin, get_watch(WATCHES, c, asin), 1)
    /\ tick' = Idle
    /\ missed' = NoMissed
    /\ calls' = calls + 1
    /\ disk' = save_state(disk, SetItems(WATCHES, c, <<>>))
    /\ UNCHANGED <<clock, aside>>

\* cb_delete
cb_delete(c, asin) ==
    LET items == get_watches_for_chat(WATCHES, c)
        kept == SelectSeq(items, LAMBDA w : w.asin # asin)
    IN  /\ calls < MaxCalls
        /\ WATCHES' = SetItems(WATCHES, c, kept)
        /\ last_op' = Op("cb_delete", c, asin, get_watch(WATCHES, c, asin), 1)
        /\ tick' = Idle
        /\ missed' = NoMissed
        /\ calls' = calls + 1
        /\ disk' = save_state(disk, SetItems(WATCHES, c, kept))
        /\ UNCHANGED <<clock, aside>>

\* run_price_check_iteration, called when `elapsed` hours have passed since the
\* clock was last read (line 91: now = time.time()): what it does to the store.
TickStep(elapsed) ==
    LET now == clock + elapsed
        keys == CandidateKeys(WATCHES)
        was(r) == IF r \in DOMAIN missed THEN missed[r] ELSE 0
    IN  /\ now <= StartClock + MaxAdvance
        /\ \A r \in DOMAIN missed : missed[r] < MaxMissed
        /\ \E t \in {RunTick(WATCHES, now)} :
              /\ WATCHES' = t.W
              /\ tick' = [outcome |-> t.outcome, at |-> t.at,
                          price_calls |-> t.price_calls, sent |-> t.sent,
                          saved |-> t.saved, selected |-> t.selected, now |-> t.now]
              /\ missed' = [r \in keys |->
                               IF r \in SelectedKeys(t) THEN 0 ELSE was(r) + 1]
        /\ clock' = now
        /\ last_op' = NoOp

\* GET /watcher-tick, one request at a time: the whole of run_price_check_iteration.
run_price_check_iteration(elapsed) ==
    /\ TickStep(elapsed)
    /\ UNCHANGED <<calls, disk, aside>>

Elapsed == {0, 1}
UrlNames == {"Tv"}
Texts == {"", "Tv"}
Thresholds == {0, 10000}

\* The scheduler with the handlers; a rename to the empty text is followed
\* in StoreSpec, which takes every text of Texts.
Next ==
    \/ \E c \in ChatIds, a \in Asins : cb_manage(c, a)
    \/ \E c \in ChatIds, a \in Asins, n \in UrlNames : handle_message_link(c, a, n)
    \/ \E c \in ChatIds, a \in Asins, thr \in Thresholds : cb_setthr(c, a, thr)
    \/ \E c \in ChatIds, a \in Asins, text \in UrlNames : handle_message_rename(c, a, text)
    \/ \E c \in ChatIds, a \in Asins : cb_delete(c, a)
    \/ \E elapsed \in Elapsed : run_price_check_iteration(elapsed)

Spec == Init /\ [][Next]_vars

\* The handlers, with passes that follow one another at once.
NextStore ==
    \/ \E c \in ChatIds, a \in Asins : cb_manage(c, a)
    \/ \E c \in ChatIds, a \in Asins, n \in UrlNames : handle_message_link(c, a, n)
    \/ \E c \in ChatIds, a \in Asins, thr \in Thresholds : cb_setthr(c, a, thr)
    \/ \E c \in ChatIds, a \in Asins, text \in Texts : handle_message_rename(c, a, text)
    \/ \E c \in ChatIds, a \in Asins : cb_delete(c, a)
    \/ run_price_check_iteration(0)

StoreSpec == Init /\ [][NextStore]_vars

---------------------------------------------------------------------------
(* The durable files, step by step: save_state() as the writes it makes,   *)
(* each of which may fail, and the process killed and started again at any *)
(* point.                                                                  *)

\* A document written before last_notified_price and last_checked_* existed,
\* with a key that is not a chat id.
OldDoc ==
    <<[key |-> "1",
       items |-> <<Stored("A", Some(10000), NoTs, Absent, NoName, Absent, Absent)>>],
      [key |-> "x", items |-> <<>>]>>

\* What a file may hold when the process starts.
BootFiles ==
    {NoFile, Partial, JsonList, JsonDict(OldDoc)}
        \cup {JsonDict(Dump(W)) : W \in DurableDocs \ {<<>>}}

InitDisk ==
    /\ disk \in {[primary |-> p, backup |-> b, tmp |-> NoFile] :
                    p \in BootFiles, b \in BootFiles}
    /\ WATCHES = load_state(disk).W
    /\ boot = Boot(disk)
    /\ save_pc = "idle"
    /\ save_end = "none"
    /\ tick_lock = 0
    /\ requests = NoRequests
    /\ NoPricing
    /\ clock = StartClock
    /\ last_op = NoOp
    /\ tick = Idle
    /\ missed = NoMissed
    /\ calls = 0

Running == boot.outcome # "raised"

\* cb_setthr up to its call of save_state(): set_or_update_watch has changed
\* the store in memory.
begin_save(c, asin, thr) ==
    LET r == set_or_update_watch(WATCHES, c, asin, Some(thr),
                                 find_name_for_asin(WATCHES, asin))
    IN  /\ Running
        /\ save_pc = "idle"
        /\ calls < MaxCalls
        /\ WATCHES' = r.W
        /\ last_op' = Op("cb_setthr", c, asin, get_watch(WATCHES, c, asin), r.saved)
        /\ save_pc' = "backup"
        /\ save_end' = "none"
        /\ calls' = calls + 1
        /\ UNCHANGED <<clock, tick, missed, disk, boot, trigger, pricing>>

\* Lines 109-114: the backup of the existing file; a failure is logged and
\* the save goes on.
save_backup ==
    /\ save_pc = "backup"
    /\ \/ ~Exists(disk.primary) /\ UNCHANGED disk
       \/ Exists(disk.primary) /\ disk' = CopyBackup(disk)
       \/ Exists(disk.primary) /\ UNCHANGED disk
       \/ Exists(disk.primary) /\ disk' = [disk EXCEPT !.backup = Partial]
    /\ save_pc' = "open"
    /\ UNCHANGED <<WATCHES, clock, last_op, tick, missed, calls, boot, save_end, trigger, pricing>>

\* Line 118: the temporary file is opened for writing, or open() raises.
save_open ==
    /\ save_pc = "open"
    /\ \/ disk' = OpenTmp(disk) /\ save_pc' = "dump" /\ UNCHANGED save_end
       \/ UNCHANGED disk /\ save_pc' = "idle" /\ save_end' = "error"
    /\ UNCHANGED <<WATCHES, clock, last_op, tick, missed, calls, boot, trigger, pricing>>

\* A failed json.dump that throws the store in memory away for the document
\* on disk.
save_dump_RollsBack ==
    /\ save_pc = "dump"
    /\ \/ disk' = DumpTmp(disk, WATCHES) /\ save_pc' = "replace"
          /\ UNCHANGED <<WATCHES, save_end>>
       \/ UNCHANGED disk /\ save_pc' = "idle" /\ save_end' = "error"
          /\ WATCHES' = load_state(disk).W
    /\ UNCHANGED <<clock, last_op, tick, missed, calls, boot, trigger, pricing>>

\* Line 119: json.dump writes the whole document, or a write raises.
save_dump ==
    /\ save_pc = "dump"
    /\ \/ disk' = DumpTmp(disk, WATCHES) /\ save_pc' = "replace" /\ UNCHANGED save_end
       \/ UNCHANGED disk /\ save_pc' = "idle" /\ save_end' = "error"
    /\ UNCHANGED <<WATCHES, clock, last_op, tick, missed, calls, boot, trigger, pricing>>

\* Line 120: the rename over data/watches.json, or replace() raises.
save_replace ==
    /\ save_pc = "replace"
    /\ \/ disk' = Replace(disk) /\ save_end' = "saved"
       \/ UNCHANGED disk /\ save_end' = "error"
    /\ save_pc' = "idle"
    /\ UNCHANGED <<WATCHES, clock, last_op, tick, missed, calls, boot, trigger, pricing>>

\* The process is killed, at any point, and started again: line 132.
crash ==
    /\ Running
    /\ WATCHES' = load_state(disk).W
    /\ boot' = Boot(disk)
    /\ save_pc' = "idle"
    /\ save_end' = IF save_pc # "idle" THEN "crash" ELSE save_end
    /\ UNCHANGED <<clock, last_op, tick, missed, calls, disk, trigger, pricing>>

NextDisk ==
    \/ \E a \in Asins : begin_save(1, a, 10000)
    \/ save_backup
    \/ save_open
    \/ save_dump
    \/ save_replace
    \/ crash

DiskSpec == InitDisk /\ [][NextDisk]_vars

---------------------------------------------------------------------------
(* The trigger of the pass.  The handler of GET /watcher-tick that calls   *)
(* run_price_check_iteration (watcher.py:84) is not among the sources; it  *)
(* is modelled from the specification, section 5: "the orchestrator must   *)
(* serialize tick execution (mutex/single active tick)".                   *)

\* The mutex taken without looking at its holder.
TryLock_Always(lock) == TRUE

\* The mutex is free.
TryLock(lock) == lock = 0

\* A request arrives.
watcher_tick_arrive(i) ==
    /\ requests[i] = "new"
    /\ requests' = [requests EXCEPT ![i] = "waiting"]
    /\ UNCHANGED <<WATCHES, clock, last_op, tick, missed, calls, disk, boot,
                   save_pc, save_end, tick_lock, pricing>>

\* The request takes the mutex and enters run_price_check_iteration.
watcher_tick_enter(i) ==
    /\ requests[i] = "waiting"
    /\ TryLock(tick_lock)
    /\ tick_lock' = i
    /\ requests' = [requests EXCEPT ![i] = "running"]
    /\ UNCHANGED <<WATCHES, clock, last_op, tick, missed, calls, disk, boot,
                   save_pc, save_end, pricing>>

\* The pass of the request: lines 91-199.
watcher_tick_run(i, elapsed) ==
    /\ requests[i] = "running"
    /\ TickStep(elapsed)
    /\ requests' = [requests EXCEPT ![i] = "ran"]
    /\ UNCHANGED <<calls, disk, boot, save_pc, save_end, tick_lock, pricing>>

\* run_price_check_iteration has returned or raised: the mutex is released.
watcher_tick_leave(i) ==
    /\ requests[i] = "ran"
    /\ tick_lock' = 0
    /\ requests' = [requests EXCEPT ![i] = "done"]
    /\ UNCHANGED <<WATCHES, clock, last_op, tick, missed, calls, disk, boot,
                   save_pc, save_end, pricing>>

\* The requests inside run_price_check_iteration.
InPass == {i \in Requests : requests[i] \in {"running", "ran"}}

NextTrigger ==
    \/ \E i \in Requests : watcher_tick_arrive(i)
    \/ \E i \in Requests : watcher_tick_enter(i)
    \/ \E i \in Requests, elapsed \in Elapsed : watcher_tick_run(i, elapsed)
    \/ \E i \in Requests : watcher_tick_leave(i)
    \/ \E a \in Asins, thr \in Thresholds : cb_setthr(2, a, thr)

TriggerSpec == Init /\ [][NextTrigger]_vars

---------------------------------------------------------------------------
(* util.py: get_price_data awaited (handlers.py:96, 131; util.py:403) with *)
(* Keepa switched on.  A call runs to the await of the upstream request    *)
(* (util.py:340) and resumes when the answer, an error or the timeout      *)
(* comes; other calls run in between.                                      *)

\* The cache entry never expiring: lines 336-338 without the comparison.
Fresh_Always(now, ts) == TRUE

\* Line 337: now - ts <= PRICE_CACHE_TTL_SECONDS
Fresh(now, ts) == now - ts <= PRICE_CACHE_TTL_SECONDS

\* Lines 334-338: there is an entry and it is fresh.
CacheHit(cache, asin, now) == cache[asin] # <<>> /\ Fresh(now, cache[asin][1])

\* Lines 381-392: the PriceData built from the Keepa statistics.
PriceDataOf(current) == [kind |-> "PriceData", price_now |-> current]

\* Line 396: return mock_prices_from_asin(asin)
MockPriceData(asin) == [kind |-> "PriceData", price_now |-> mock_prices_from_asin(asin)]

\* What the upstream request ends in: statistics with a current price (cents),
\* or one of the errors of util.py:139-163, 342-348 and 199.
KeepaPrices == {7900, 8100}
Faults == {"timeout", "status", "json", "products", "stats", "current"}
Outcomes ==
    {[why |-> "ok", current |-> p] : p \in KeepaPrices}
        \cup {[why |-> f, current |-> 0] : f \in Faults}

\* The moments a behaviour passes through.
Instants == {0, KEEPA_TIMEOUT, PRICE_CACHE_TTL_SECONDS, PRICE_CACHE_TTL_SECONDS + 1}

InitPrice ==
    /\ WATCHES = <<>>
    /\ disk = DiskOf(WATCHES)
    /\ boot = Boot(disk)
    /\ clock = StartClock
    /\ last_op = NoOp
    /\ tick = Idle
    /\ missed = NoMissed
    /\ calls = 0
    /\ save_pc = "idle"
    /\ save_end = "none"
    /\ tick_lock = 0
    /\ requests = NoRequests
    /\ USE_KEEPA \in BOOLEAN
    /\ _PRICE_CACHE = [a \in Asins |-> <<>>]
    /\ seconds = 0
    /\ tasks = [k \in Tasks |-> NewTask]
    /\ upstream = <<>>

Done(asin, now, result, source, fault) ==
    [pc |-> "done", asin |-> asin, now |-> now, result |-> result,
     source |-> source, fault |-> fault]

\* await get_price_data(asin), up to its return or to the await of line 340.
get_price_data_call(k, asin) ==
    /\ tasks[k].pc = "new"
    /\ \A j \in 1..(k - 1) : tasks[j].pc # "new"
    /\ \/ /\ ~USE_KEEPA
          /\ tasks' = [tasks EXCEPT ![k] =
                          Done(asin, seconds, MockPriceData(asin), "mock", "")]
          /\ UNCHANGED upstream
       \/ /\ USE_KEEPA
          /\ CacheHit(_PRICE_CACHE, asin, seconds)
          /\ tasks' = [tasks EXCEPT ![k] =
                          Done(asin, seconds, PriceDataOf(_PRICE_CACHE[asin][2]),
                               "cache", "")]
          /\ UNCHANGED upstream
       \/ /\ USE_KEEPA
          /\ ~CacheHit(_PRICE_CACHE, asin, seconds)
          /\ tasks' = [tasks EXCEPT ![k] =
                          [NewTask EXCEPT !.pc = "fetching", !.asin = asin,
                                          !.now = seconds]]
          /\ upstream' = Append(upstream, [asin |-> asin, at |-> seconds])
    /\ UNCHANGED <<WATCHES, clock, last_op, tick, missed, calls, disk, boot,
                   save_pc, save_end, trigger, USE_KEEPA, _PRICE_CACHE, seconds>>

\* The call resumes after line 340: lines 341-362 and 377-396.
get_price_data_resume(k, outcome) ==
    LET t == tasks[k]
    IN  /\ t.pc = "fetching"
        /\ outcome.why = "timeout" => seconds - t.now >= KEEPA_TIMEOUT
        /\ \/ /\ outcome.why = "ok"
              /\ _PRICE_CACHE' = [_PRICE_CACHE EXCEPT ![t.asin] = <<t.now, outcome.current>>]
              /\ tasks' = [tasks EXCEPT ![k] =
                              Done(t.asin, t.now, PriceDataOf(outcome.current),
                                   "upstream", "")]
           \/ /\ outcome.why # "ok"
              /\ UNCHANGED _PRICE_CACHE
              /\ tasks' = [tasks EXCEPT ![k] =
                              Done(t.asin, t.now, MockPriceData(t.asin),
                                   "mock", outcome.why)]
        /\ UNCHANGED <<WATCHES, clock, last_op, tick, missed, calls, disk, boot,
                       save_pc, save_end, trigger, USE_KEEPA, seconds, upstream>>

\* Time passes; an upstream request is over by its timeout.
time_passes(t) ==
    /\ t > seconds
    /\ \A k \in Tasks : tasks[k].pc = "fetching" => t - tasks[k].now <= KEEPA_TIMEOUT
    /\ seconds' = t
    /\ UNCHANGED <<WATCHES, clock, last_op, tick, missed, calls, disk, boot,
                   save_pc, save_end, trigger, USE_KEEPA, _PRICE_CACHE, tasks, upstream>>

NextPrice ==
    \/ \E k \in Tasks, a \in Asins : get_price_data_call(k, a)
    \/ \E k \in Tasks, o \in Outcomes : get_price_data_resume(k, o)
    \/ \E t \in Instants : time_passes(t)

PriceSpec == InitPrice /\ [][NextPrice]_vars

---------------------------------------------------------------------------
(* The selector over a range of stores: run_price_check_iteration on       *)
(* documents an earlier run of the bot saved, with prices on both sides of *)
(* every limit of _priority_bucket and with several watches of one bucket. *)

\* A watch of a stored document with nothing notified yet.
Checked(asin, threshold, checked_price, checked_ts) ==
    Stored(asin, threshold, 0, None, "", checked_price, checked_ts)

\* (last_checked_price, threshold) in cents: around the limits of 1%, 5% and
\* 15% above 100.00 and 70.00, and a threshold of 0 and one below 0 (both
\* pass float(val), handlers.py:255 and 329).
ProbePairs ==
    {<<p, 10000>> : p \in {9900, 10000, 10050, 10100, 10101, 10300, 10500, 10501,
                           11000, 11500, 11501, 20000}}
        \cup {<<p, 7000>> : p \in {7069, 7070, 7071, 7350}}
        \cup {<<8510, 0>>, <<8510, 0 - 500>>}

\* Stores of one watch: checked three hours ago at one of the prices, or
\* never checked.
ProbeStores ==
    {<<[chat_id |-> 1,
        items |-> <<Checked("A", Some(pt[2]), Some(pt[1]), Some(StartClock - 3))>>]>> :
        pt \in ProbePairs}
    \cup {<<[chat_id |-> 1,
             items |-> <<Checked("A", Some(thr), Absent, Absent)>>]>> :
             thr \in {0, 7000, 10000}}

\* What the list of an owner may hold for a product: nothing, a watch without
\* a threshold, a watch never checked, or a watch checked at some price some
\* hours ago (buckets 0, 0, 1 and 2).
SlotKinds == {"none", "nothr", "never", "below11", "below1", "near1", "mid5"}

Slot(kind, asin) ==
    CASE kind = "none" -> <<>>
      [] kind = "nothr" -> <<Checked(asin, None, Absent, Absent)>>
      [] kind = "never" -> <<Checked(asin, Some(10000), Absent, Absent)>>
      [] kind = "below11" ->
            <<Checked(asin, Some(10000), Some(8510), Some(StartClock - 11))>>
      [] kind = "below1" ->
            <<Checked(asin, Some(10000), Some(9500), Some(StartClock - 1))>>
      [] kind = "near1" ->
            <<Checked(asin, Some(10000), Some(10300), Some(StartClock - 1))>>
      [] kind = "mid5" ->
            <<Checked(asin, Some(10000), Some(11000), Some(StartClock - 5))>>

\* Stores of two owners with up to two watches each.
SlotStores ==
    {<<[chat_id |-> 1, items |-> Slot(k[1], "A") \o Slot(k[2], "B")],
       [chat_id |-> 2, items |-> Slot(k[3], "A") \o Slot(k[4], "B")]>> :
       k \in SlotKinds \X SlotKinds \X SlotKinds \X SlotKinds}

InitSelect ==
    /\ disk \in {DiskOf(W) : W \in ProbeStores \cup SlotStores}
    /\ WATCHES = load_state(disk).W
    /\ boot = Boot(disk)
    /\ save_pc = "idle"
    /\ save_end = "none"
    /\ tick_lock = 0
    /\ requests = NoRequests
    /\ NoPricing
    /\ clock = StartClock
    /\ last_op = NoOp
    /\ tick = Idle
    /\ missed = NoMissed
    /\ calls = 0

NextSelect == \E elapsed \in Elapsed : run_price_check_iteration(elapsed)

SelectSpec == InitSelect /\ [][NextSelect]_vars

---------------------------------------------------------------------------
(* The claims.                                                             *)

\* The price a fetch of the product yields: USE_KEEPA is off unless the
\* environment sets it (util.py:18), and get_price_data then answers with
\* mock_prices_from_asin.
CurrentPrice(asin) == mock_prices_from_asin(asin)

NumCandidates == Cardinality(CandidateKeys(WATCHES))

\* The notifications of a pass that went to this candidate's owner for its product.
SentFor(t, cand) ==
    {m \in 1..Len(t.sent) :
        t.sent[m].chat_id = cand.chat_id /\ t.sent[m].asin = cand.asin}

\* C1: a pass selects exactly min(N, MAX_CHECKS_PER_TICK) distinct watches out
\* of the N candidates of the store (numeric threshold and a product id), and
\* calls the price source at most MAX_CHECKS_PER_TICK times.
BudgetRespected ==
    tick.outcome # "idle" =>
        /\ Len(tick.selected) = Min2(NumCandidates, MAX_CHECKS_PER_TICK)
        /\ Cardinality(SelectedKeys(tick)) = Len(tick.selected)
        /\ SelectedKeys(tick) \subseteq CandidateKeys(WATCHES)
        /\ tick.price_calls <= MAX_CHECKS_PER_TICK

\* A pass over more candidates than the budget, cut to the budget.
BudgetWitness ==
    /\ tick.outcome # "idle"
    /\ NumCandidates > MAX_CHECKS_PER_TICK
    /\ Len(tick.selected) = MAX_CHECKS_PER_TICK

\* C3: a pass that handles a watch still inside the cooldown sends nothing for
\* it and leaves last_notified_price and last_notified_ts alone, and it still
\* writes last_checked_price and last_checked_ts.
CooldownStepStillChecks ==
    [][\A n \in 1..tick'.at :
          LET cand == tick'.selected[n]
              before == WatchOf(WATCHES, cand)
              after == WatchOf(WATCHES', cand)
          IN  tick'.now - before.last_notified_ts < NOTIFY_COOLDOWN_SECONDS =>
                /\ SentFor(tick', cand) = {}
                /\ after.last_notified_price = before.last_notified_price
                /\ after.last_notified_ts = before.last_notified_ts
                /\ after.last_checked_price = Some(CurrentPrice(cand.asin))
                /\ after.last_checked_ts = Some(tick'.now)]_vars

\* The cooldown is over and the price is at or below the threshold and is not
\* the price last notified.
BelowAndChanged(w, cand, now) ==
    /\ now - w.last_notified_ts >= NOTIFY_COOLDOWN_SECONDS
    /\ CurrentPrice(cand.asin) <= cand.threshold
    /\ w.last_notified_price # Some(CurrentPrice(cand.asin))

\* C5: a pass that handles a watch whose cooldown is over, whose price is at or
\* below the threshold and differs from last_notified_price (or there is none)
\* sends exactly one "below threshold" notification for it and leaves
\* last_notified_price = the price and last_notified_ts = now.
BelowThresholdNotifies ==
    [][\A n \in 1..tick'.at :
          LET cand == tick'.selected[n]
              before == WatchOf(WATCHES, cand)
              after == WatchOf(WATCHES', cand)
          IN  BelowAndChanged(before, cand, tick'.now) =>
                /\ Cardinality(SentFor(tick', cand)) = 1
                /\ \A m \in SentFor(tick', cand) : tick'.sent[m].kind = "below"
                /\ after.last_notified_price = Some(CurrentPrice(cand.asin))
                /\ after.last_notified_ts = tick'.now]_vars

\* C6: set_or_update_watch on an existing watch leaves it with
\* last_notified_price = None and last_notified_ts = 0, and with the
\* last_checked_price and last_checked_ts it had.
ThresholdResetClearsArming ==
    (last_op.op \in {"cb_setthr", "handle_message_rename"} /\ last_op.before # <<>>) =>
        LET w == get_watch(WATCHES, last_op.chat_id, last_op.asin)
        IN  /\ w # <<>>
            /\ w[1].last_notified_price = None
            /\ w[1].last_notified_ts = 0
            /\ w[1].last_checked_price = last_op.before[1].last_checked_price
            /\ w[1].last_checked_ts = last_op.before[1].last_checked_ts

\* A threshold was set on a watch that had been notified and checked.
ThresholdResetWitness ==
    /\ last_op.op = "cb_setthr"
    /\ last_op.before # <<>>
    /\ last_op.before[1].last_notified_price # None
    /\ last_op.before[1].last_notified_ts # 0
    /\ IsNumber(last_op.before[1].last_checked_price)

\* C7: while the store stays as it is, no candidate goes unselected for
\* ceil(N / MAX_CHECKS_PER_TICK) passes in a row.
StarvationFreedom ==
    \A r \in DOMAIN missed :
        missed[r] < CeilDiv(Cardinality(DOMAIN missed), MAX_CHECKS_PER_TICK)

DecidesToNotify(w, cand, now) ==
    /\ now - w.last_notified_ts >= NOTIFY_COOLDOWN_SECONDS
    /\ \/ CurrentPrice(cand.asin) <= cand.threshold
       \/ 100 * (CurrentPrice(cand.asin) - cand.threshold) <= CurrentPrice(cand.asin)
    /\ w.last_notified_price # Some(CurrentPrice(cand.asin))

FailureDoesNotAbortBatch ==
    tick.outcome = "raised" =>
        /\ \A n \in 1..Len(tick.selected) :
              n # tick.at =>
                WatchOf(WATCHES, tick.selected[n]).last_checked_ts = Some(tick.now)
        /\ tick.saved >= 1

\* C12: a save_state() that is interrupted before its rename, by an error of
\* a write or by the death of the process, leaves data/watches.json exactly as
\* it was; the file changes only in the rename, to the complete document of
\* the store; a file that parses never becomes one that does not; and the
\* load_state() of the next start returns the document the file held.
AtomicPersistence ==
    [][/\ (save_pc # "idle" /\ ~(save_pc = "replace" /\ save_end' = "saved")) =>
              disk'.primary = disk.primary
       /\ disk'.primary # disk.primary =>
              disk'.primary = JsonDict(Dump(WATCHES))
       /\ disk.primary.kind # "partial" => disk'.primary.kind # "partial"
       /\ (save_end' = "crash" /\ disk.primary.kind = "dict") =>
              /\ boot'.outcome = "primary"
              /\ WATCHES' = Normalise(disk.primary.doc, 1, <<>>)]_vars

\* The process died while the temporary file was half written: the watch the
\* handler was adding is gone and the store is the document saved before.
InterruptedSaveWitness ==
    /\ save_end = "crash"
    /\ disk.tmp = Partial
    /\ disk.primary.kind = "dict"
    /\ last_op.before = <<>>
    /\ get_watch(WATCHES, last_op.chat_id, last_op.asin) = <<>>
    /\ WATCHES = Normalise(disk.primary.doc, 1, <<>>)

\* json.load returns the document of a store: the file is a JSON object.
Readable(file) == file.kind = "dict"

\* C13: load_state() never raises, and when data/watches.json is missing or
\* unreadable it returns the store of the backup if the backup is readable,
\* and the empty store only if it is not.
LoadFallsBack ==
    /\ boot.outcome # "raised"
    /\ ~Readable(boot.saw.primary) =>
          IF Readable(boot.saw.backup)
          THEN boot.outcome = "backup"
               /\ boot.W = Normalise(boot.saw.backup.doc, 1, <<>>)
          ELSE boot.outcome = "empty" /\ boot.W = <<>>

\* C14: in a store that started empty, whatever ensure_watch,
\* set_or_update_watch, removals and passes followed, no owner's list holds two
\* watches with the same product id.
WatchIdentity ==
    boot.W = <<>> =>
        \A k \in 1..Len(WATCHES) :
            \A i, j \in 1..Len(WATCHES[k].items) :
                WATCHES[k].items[i].asin = WATCHES[k].items[j].asin => i = j

\* From the empty store, ensure_watch was called for a pair that had a watch.
WatchIdentityWitness ==
    /\ boot.W = <<>>
    /\ last_op.op \in {"cb_manage", "handle_message_link"}
    /\ last_op.before # <<>>
    /\ get_watch(WATCHES, last_op.chat_id, last_op.asin) # <<>>

UpstreamOncePerWindow ==
    \A m, n \in 1..Len(upstream) :
        (m < n /\ upstream[m].asin = upstream[n].asin) =>
            upstream[n].at - upstream[m].at > PRICE_CACHE_TTL_SECONDS

\* C17: a call of get_price_data whose upstream request failed (timeout, status,
\* unparsable body, missing products, stats or current price) returns, and what
\* it returns is an Unavailable outcome, not a price snapshot.
UpstreamFailureIsUnavailable ==
    \A k \in Tasks :
        (tasks[k].pc = "done" /\ tasks[k].fault # "") =>
            tasks[k].result.kind = "Unavailable"

\* C18: a call of _get_keepa_stats_90 returns the cached snapshot if and only
\* if there is one whose timestamp is at most PRICE_CACHE_TTL_SECONDS before
\* the call, and sends an upstream request otherwise; the cache entry of a
\* product changes only when such a request succeeds, to its snapshot, and a
\* failed request leaves the cache as it was.
CacheFreshness ==
    [][/\ \A k \in Tasks :
            (USE_KEEPA /\ tasks[k].pc = "new" /\ tasks'[k].pc # "new") =>
                LET a == tasks'[k].asin
                    e == _PRICE_CACHE[a]
                IN  IF e # <<>> /\ seconds - e[1] <= PRICE_CACHE_TTL_SECONDS
                    THEN /\ tasks'[k].source = "cache"
                         /\ tasks'[k].result = PriceDataOf(e[2])
                         /\ upstream' = upstream
                    ELSE /\ tasks'[k].pc = "fetching"
                         /\ upstream' = Append(upstream, [asin |-> a, at |-> seconds])
       /\ \A a \in Asins :
            _PRICE_CACHE'[a] # _PRICE_CACHE[a] =>
                \E k \in Tasks :
                    /\ tasks[k].pc = "fetching" /\ tasks[k].asin = a
                    /\ tasks'[k].source = "upstream"
                    /\ _PRICE_CACHE'[a] = <<tasks[k].now, tasks'[k].result.price_now>>
       /\ \A k \in Tasks :
            (tasks[k].pc = "fetching" /\ tasks'[k].fault # "") =>
                _PRICE_CACHE' = _PRICE_CACHE]_vars

\* A call answered from an entry exactly PRICE_CACHE_TTL_SECONDS old.
CacheFreshnessWitness ==
    \E k \in Tasks :
        /\ tasks[k].pc = "done" /\ tasks[k].source = "cache"
        /\ tasks[k].now = PRICE_CACHE_TTL_SECONDS
        /\ _PRICE_CACHE[tasks[k].asin][1] = 0

\* The watches of a store, each named <<chat_id, index in the chat's list>>,
\* that satisfy P.
KeysWhere(W, P(_)) ==
    UNION {{<<W[k].chat_id, i>> : i \in {j \in 1..Len(W[k].items) : P(W[k].items[j])}} :
           k \in 1..Len(W)}

\* The candidate list a pass at time now builds from the store (lines 94-117).
BuiltKeys(W, now) ==
    LET cands == BuildCandidates(W, now)
    IN  {<<cands[n].chat_id, cands[n].idx>> : n \in 1..Len(cands)}

HasThreshold(w) == w.threshold # None /\ w.threshold # Absent
HasThresholdAndAsin(w) == HasThreshold(w) /\ w.asin # ""
NoThreshold(w) == ~HasThreshold(w)

\* What a pass does with the watches that have no threshold: it selects none
\* of them, sends nothing for them and leaves them as they were.
IgnoresNoThreshold ==
    /\ SelectedKeys(tick') \cap KeysWhere(WATCHES, NoThreshold) = {}
    /\ \A r \in KeysWhere(WATCHES, NoThreshold) :
          /\ get_watches_for_chat(WATCHES', r[1])[r[2]]
                = get_watches_for_chat(WATCHES, r[1])[r[2]]
          /\ \A m \in 1..Len(tick'.sent) :
                tick'.sent[m].chat_id = r[1] =>
                    tick'.sent[m].asin # get_watches_for_chat(WATCHES, r[1])[r[2]].asin

\* C19, as stated: the candidates of a pass are exactly the watches whose
\* threshold is a number (0 included, None not), and the pass leaves the
\* watches without a threshold alone.
SchedulableIffThreshold ==
    [][tick'.outcome # "idle" =>
          /\ BuiltKeys(WATCHES, tick'.now) = KeysWhere(WATCHES, HasThreshold)
          /\ IgnoresNoThreshold]_vars

\* C19, amended: the candidates of a pass are exactly the watches whose
\* threshold is a number (0 included, None not) and whose product id is not
\* empty, and the pass leaves the watches without a threshold alone.
SchedulableIffThresholdAndAsin ==
    [][tick'.outcome # "idle" =>
          /\ BuiltKeys(WATCHES, tick'.now) = KeysWhere(WATCHES, HasThresholdAndAsin)
          /\ IgnoresNoThreshold]_vars

\* A pass selected a watch with threshold 0 in a store that also holds a
\* watch without a threshold.
SchedulableWitness ==
    /\ tick.outcome = "raised"
    /\ \E n \in 1..Len(tick.selected) : tick.selected[n].threshold = 0
    /\ KeysWhere(WATCHES, NoThreshold) # {}

\* The price the last check saw is not known: the key is missing or null.
PriceUnknown(w) == w.last_checked_price \in {None, Absent}

\* The price is at most pct % above the threshold.
WithinAbove(price, threshold, pct) == 100 * (price - threshold) <= pct * threshold

\* The bucket of a watch as the claim states it.
StatedBucket(w) ==
    LET thr == Val(w.threshold)
    IN  IF PriceUnknown(w) THEN 0
        ELSE IF Val(w.last_checked_price) <= thr
                \/ WithinAbove(Val(w.last_checked_price), thr, 1) THEN 0
        ELSE IF WithinAbove(Val(w.last_checked_price), thr, 5) THEN 1
        ELSE IF WithinAbove(Val(w.last_checked_price), thr, 15) THEN 2
        ELSE 3

\* The buckets of a watch whose price is known: one bucket off the limits,
\* either neighbour for a price exactly 1%, 5% or 15% above the threshold.
BucketsByGap(price, thr) ==
    LET d == 100 * (price - thr)
    IN  IF thr < 0 \/ price <= thr \/ d < thr THEN {0}
        ELSE IF thr > 0 /\ d = thr THEN {0, 1}
        ELSE IF d < 5 * thr THEN {1}
        ELSE IF thr > 0 /\ d = 5 * thr THEN {1, 2}
        ELSE IF d < 15 * thr THEN {2}
        ELSE IF thr > 0 /\ d = 15 * thr THEN {2, 3}
        ELSE {3}

AmendedBuckets(w) ==
    IF PriceUnknown(w) THEN {2}
    ELSE BucketsByGap(Val(w.last_checked_price), Val(w.threshold))

\* C22, as stated: the bucket _priority_bucket gives a selected watch is 0
\* when last_checked_price is unknown, at or below the threshold or at most 1%
\* above it, 1 when at most 5% above, 2 when at most 15% above, 3 beyond.
PriorityBucketAsStated ==
    \A n \in 1..Len(tick.selected) :
        tick.selected[n].score[1] = StatedBucket(WatchOf(WATCHES, tick.selected[n]))

\* C22, amended: the bucket is 2 when last_checked_price is unknown; with a
\* known price it is 0 at or below the threshold, under 1% above it, and for
\* every price when the threshold is negative, 1 between 1% and 5% above, 2
\* between 5% and 15%, 3 beyond 15%, and either neighbour for a price exactly
\* 1%, 5% or 15% above the threshold.
PriorityBucket ==
    \A n \in 1..Len(tick.selected) :
        tick.selected[n].score[1] \in AmendedBuckets(WatchOf(WATCHES, tick.selected[n]))

\* A pass ranked a watch that was never checked: bucket 2.
PriorityBucketWitness ==
    /\ tick.outcome = "raised"
    /\ \E n \in 1..Len(tick.selected) :
          /\ PriceUnknown(WatchOf(WATCHES, tick.selected[n]))
          /\ tick.selected[n].score[1] = 2

\* The watch has no time of a last check.
NeverChecked(w) == ~IsNumber(w.last_checked_ts) \/ Val(w.last_checked_ts) = 0

\* w1 is at least as stale as w2 at time now: it was never checked, or both
\* were and now - last_checked_ts of w1 is not the smaller.
AtLeastAsStale(w1, w2, now) ==
    \/ NeverChecked(w1)
    \/ /\ ~NeverChecked(w2)
       /\ now - Val(w1.last_checked_ts) >= now - Val(w2.last_checked_ts)

\* The key (bucket, -staleness) of candidate c1 is not greater than that of c2.
KeyNotGreater(W, c1, c2, now) ==
    \/ c1.score[1] < c2.score[1]
    \/ /\ c1.score[1] = c2.score[1]
       /\ AtLeastAsStale(WatchOf(W, c1), WatchOf(W, c2), now)

\* The candidates of the store that the pass did not select.
Unselected(W, t) ==
    LET all == BuildCandidates(W, t.now)
    IN  {all[n] : n \in {j \in 1..Len(all) :
                            <<all[j].chat_id, all[j].idx>> \notin SelectedKeys(t)}}

\* C23: the selected watches are in ascending order of bucket and, within a
\* bucket, of descending staleness, a watch never checked standing before every
\* checked watch of its bucket; and no candidate left out has a smaller
\* (bucket, -staleness) key than a selected one.
SelectionOrder ==
    tick.outcome # "idle" =>
        /\ \A m, n \in 1..Len(tick.selected) :
              m < n => KeyNotGreater(WATCHES, tick.selected[m], tick.selected[n], tick.now)
        /\ \A u \in Unselected(WATCHES, tick) :
              \A n \in 1..Len(tick.selected) :
                  KeyNotGreater(WATCHES, tick.selected[n], u, tick.now)

\* A pass left a candidate out and selected, in one bucket, a watch never
\* checked ahead of a checked watch that stands before it in the store.
SelectionOrderWitness ==
    /\ tick.outcome = "raised"
    /\ Unselected(WATCHES, tick) # {}
    /\ \E m, n \in 1..Len(tick.selected) :
          /\ m < n
          /\ tick.selected[m].score[1] = tick.selected[n].score[1]
          /\ NeverChecked(WatchOf(WATCHES, tick.selected[m]))
          /\ ~NeverChecked(WatchOf(WATCHES, tick.selected[n]))
          /\ tick.selected[m].chat_id = tick.selected[n].chat_id
          /\ tick.selected[m].idx > tick.selected[n].idx

\* C25: once a save_state() has completed, data/watches.bak.json holds a
\* readable document that was committed before, whatever saves, failed writes
\* and restarts came earlier.
BackupRetention ==
    save_end = "saved" => Readable(disk.backup)

\* C26: a save_state() in which a write fails ends without raising (the
\* process runs on) and leaves WATCHES as it was, and a save_state() that
\* completes leaves in data/watches.json the whole store held in memory,
\* the changes of earlier failed saves included.
PersistenceFault ==
    [][/\ (save_pc # "idle" /\ save_end' = "error") =>
              /\ WATCHES' = WATCHES
              /\ save_pc' = "idle"
              /\ boot' = boot
       /\ (save_pc = "backup" /\ save_end' # "crash" /\ disk'.backup # disk.primary) =>
              /\ WATCHES' = WATCHES
              /\ save_pc' = "open"
       /\ save_end' = "saved" =>
              /\ WATCHES' = WATCHES
              /\ disk'.primary = JsonDict(Dump(WATCHES))]_vars

\* Started with no files, the process changed two watches; a write of the
\* first save_state() failed, the second completed and the file holds both.
PersistenceFaultWitness ==
    /\ ~Exists(boot.saw.primary)
    /\ save_end = "saved"
    /\ ~Exists(disk.backup)
    /\ get_watch(WATCHES, 1, "A") # <<>>
    /\ get_watch(WATCHES, 1, "B") # <<>>
    /\ disk.primary = JsonDict(Dump(WATCHES))

StorePos(W, cand) == <<KeyIndex(W, cand.chat_id), cand.idx>>

PosLess(p, q) == p[1] < q[1] \/ (p[1] = q[1] /\ p[2] < q[2])

\* The order that fixes the selection: by key and, for equal keys, by the
\* place in the store.  It is total and strict on the candidates of a store.
Precedes(W, c1, c2, now) ==
    \/ ~KeyNotGreater(W, c2, c1, now)
    \/ /\ KeyNotGreater(W, c1, c2, now)
       /\ PosLess(StorePos(W, c1), StorePos(W, c2))

\* The selection is the one sequence the store and now allow: the first
\* min(N, MAX_CHECKS_PER_TICK) candidates in the order Precedes.
SelectionFixed(W, t) ==
    /\ Len(t.selected) = Min2(Cardinality(CandidateKeys(W)), MAX_CHECKS_PER_TICK)
    /\ SelectedKeys(t) \subseteq CandidateKeys(W)
    /\ \A m, n \in 1..Len(t.selected) :
          m < n => Precedes(W, t.selected[m], t.selected[n], t.now)
    /\ \A u \in Unselected(W, t) :
          \A n \in 1..Len(t.selected) : Precedes(W, t.selected[n], u, t.now)

\* C28: the selection of a pass is a function of the store and of now (the
\* sequence fixed by the keys and, for equal keys, by the order of the store),
\* so a second pass over the same store at the same now selects the same
\* sequence; with no candidate the selection is empty and nothing is fetched
\* or sent; with at most MAX_CHECKS_PER_TICK candidates all are selected.
SelectionDeterministic ==
    [][tick'.outcome # "idle" =>
          /\ SelectionFixed(WATCHES, tick')
          /\ (tick.outcome # "idle" /\ WATCHES' = WATCHES /\ tick'.now = tick.now) =>
                tick'.selected = tick.selected
          /\ CandidateKeys(WATCHES) = {} =>
                /\ tick'.selected = <<>>
                /\ tick'.price_calls = 0
                /\ tick'.sent = <<>>
          /\ Cardinality(CandidateKeys(WATCHES)) <= MAX_CHECKS_PER_TICK =>
                SelectedKeys(tick') = CandidateKeys(WATCHES)]_vars

\* A second pass at the same now over a store in which a selected watch and
\* a watch left out have the same key.
SelectionDeterministicWitness ==
    /\ tick.outcome = "raised"
    /\ tick.now = StartClock
    /\ \E r \in DOMAIN missed : missed[r] > 1
    /\ \E u \in Unselected(WATCHES, tick) :
          \E n \in 1..Len(tick.selected) :
              /\ KeyNotGreater(WATCHES, u, tick.selected[n], tick.now)
              /\ KeyNotGreater(WATCHES, tick.selected[n], u, tick.now)

\* C29: a pass returns a report with the counts checked, notified and
\* skipped_errors, where checked + skipped_errors is the number of selected
\* watches and notified the number of notifications the pass sent.
TickReturnsReport ==
    tick.outcome # "idle" =>
        /\ Returned(tick).kind = "TickReport"
        /\ Returned(tick).checked + Returned(tick).skipped_errors = Len(tick.selected)
        /\ Returned(tick).notified = Len(tick.sent)

\* The product ids a watch of the store may carry.
StoredAsins == Asins \cup {""}

TickFrame ==
    [][tick'.outcome # "idle" =>
          /\ Len(WATCHES') = Len(WATCHES)
          /\ \A k \in 1..Len(WATCHES) :
                /\ WATCHES'[k].chat_id = WATCHES[k].chat_id
                /\ Len(WATCHES'[k].items) = Len(WATCHES[k].items)
                /\ \A i \in 1..Len(WATCHES[k].items) :
                      /\ WATCHES'[k].items[i].threshold = WATCHES[k].items[i].threshold
                      /\ WATCHES'[k].items[i].name = WATCHES[k].items[i].name
                      /\ WATCHES'[k].items[i].asin = WATCHES[k].items[i].asin
                      /\ <<WATCHES[k].chat_id, i>> \notin SelectedKeys(tick') =>
                            WATCHES'[k].items[i] = WATCHES[k].items[i]]_vars

\* A pass over a store that holds watches of two owners, some selected and
\* some not.
TickFrameWitness ==
    /\ tick.outcome = "raised"
    /\ Len(WATCHES) = 2
    /\ \E k \in 1..Len(WATCHES) :
          \E i \in 1..Len(WATCHES[k].items) :
              <<WATCHES[k].chat_id, i>> \notin SelectedKeys(tick)

\* The price is one a notification is due for: at or below the threshold, or
\* above it by at most 1% of the price.
InNotifyBand(price, threshold) ==
    \/ price <= threshold
    \/ 100 * (price - threshold) <= price

\* C33: the pass that follows set_or_update_watch on a watch, selects the watch
\* and handles it at a price at or below (or near) its threshold sends a
\* notification for it, however recent the last one was.
ResetBypassesCooldown ==
    [][(last_op.op \in {"cb_setthr", "handle_message_rename"}
            /\ tick'.outcome # "idle") =>
          \A n \in 1..tick'.at :
              LET cand == tick'.selected[n]
              IN  (/\ cand.chat_id = last_op.chat_id
                   /\ cand.asin = last_op.asin
                   /\ InNotifyBand(CurrentPrice(cand.asin), cand.threshold)) =>
                      SentFor(tick', cand) # {}]_vars

\* C35: after a rename through the pending-rename path the watch has the
\* threshold it had, last_notified_price = None and last_notified_ts = 0; a
\* watch that did not exist is created, once, with threshold None.
RenameKeepsThreshold ==
    last_op.op = "handle_message_rename" =>
        LET items == get_watches_for_chat(WATCHES, last_op.chat_id)
            w == get_watch(WATCHES, last_op.chat_id, last_op.asin)
        IN  /\ w # <<>>
            /\ w[1].last_notified_price = None
            /\ w[1].last_notified_ts = 0
            /\ IF last_op.before # <<>>
               THEN w[1].threshold = last_op.before[1].threshold
               ELSE /\ w[1].threshold = None
                    /\ Cardinality({i \in 1..Len(items) :
                                       items[i].asin = last_op.asin}) = 1

\* A watch with a threshold and a notification behind it was renamed.
RenameKeepsThresholdWitness ==
    /\ last_op.op = "handle_message_rename"
    /\ last_op.before # <<>>
    /\ IsNumber(last_op.before[1].threshold)
    /\ last_op.before[1].last_notified_price # None
    /\ last_op.before[1].last_notified_ts # 0

\* C37: a selected watch whose last checked price is one a notification is
\* due for (at or below the threshold, or above it by at most 1% of the
\* price) has bucket 0.
BucketAgreesWithBand ==
    \A n \in 1..Len(tick.selected) :
        LET w == WatchOf(WATCHES, tick.selected[n])
        IN  (/\ ~PriceUnknown(w)
             /\ InNotifyBand(Val(w.last_checked_price), Val(w.threshold))) =>
                tick.selected[n].score[1] = 0

\* C38: for every store the handlers and passes reach, a save_state() that
\* completes followed by load_state() returns the same store: the same owners
\* in the same order, each with the same list of watches, field by field, the
\* last_checked_price and last_checked_ts of a watch included; and the file
\* the last completed save left loads to the store in memory.
SaveLoadRoundTrip ==
    /\ load_state(save_state(disk, WATCHES)) = [W |-> WATCHES, outcome |-> "primary"]
    /\ last_op.saved > 0 => load_state(disk).W = WATCHES

\* A handler saved a store of two owners in which one watch carries
\* last_checked_price and last_checked_ts and another has neither key.
SaveLoadRoundTripWitness ==
    /\ last_op.saved > 0
    /\ Len(WATCHES) = 2
    /\ \E k, l \in 1..Len(WATCHES) :
          /\ \E i \in 1..Len(WATCHES[k].items) :
                IsNumber(WATCHES[k].items[i].last_checked_price)
          /\ \E j \in 1..Len(WATCHES[l].items) :
                WATCHES[l].items[j].last_checked_price = Absent
    /\ load_state(disk).W = WATCHES

\* The names a caller of ensure_watch passes: none, the empty one, a name.
GivenNames == {NoName, "", "Tv"}

\* C39: ensure_watch on a pair that has a watch leaves its threshold,
\* last_notified_* and last_checked_* alone and the list as long as it was,
\* and changes the name only from the empty name to a non-empty one; on a
\* pair without a watch it appends one record with threshold None,
\* last_notified_ts 0 and last_notified_price None; and the same call made a
\* second time changes nothing and saves nothing.
EnsureWatchIdempotent ==
    [][last_op'.op \in {"cb_manage", "handle_message_link"} =>
          LET c == last_op'.chat_id
              a == last_op'.asin
              before == get_watch(WATCHES, c, a)
              after == get_watch(WATCHES', c, a)
              n0 == Len(get_watches_for_chat(WATCHES, c))
              n1 == Len(get_watches_for_chat(WATCHES', c))
          IN  /\ after # <<>>
              /\ before # <<>> =>
                    /\ n1 = n0
                    /\ after[1].threshold = before[1].threshold
                    /\ after[1].last_notified_ts = before[1].last_notified_ts
                    /\ after[1].last_notified_price = before[1].last_notified_price
                    /\ after[1].last_checked_price = before[1].last_checked_price
                    /\ after[1].last_checked_ts = before[1].last_checked_ts
                    /\ after[1].name # before[1].name =>
                          (before[1].name = "" /\ after[1].name # "")
              /\ before = <<>> =>
                    /\ n1 = n0 + 1
                    /\ after[1].threshold = None
                    /\ after[1].last_notified_ts = 0
                    /\ after[1].last_notified_price = None
              /\ \A o \in ChatIds \ {c} :
                    get_watches_for_chat(WATCHES', o) = get_watches_for_chat(WATCHES, o)
              /\ \A name \in GivenNames :
                    LET first == ensure_watch(WATCHES, c, a, name)
                        second == ensure_watch(first.W, c, a, name)
                    IN  second.W = first.W /\ second.saved = 0]_vars

\* A product link gave a name to a watch that had a threshold and no name.
EnsureWatchIdempotentWitness ==
    /\ last_op.op = "handle_message_link"
    /\ last_op.before # <<>>
    /\ last_op.before[1].name = ""
    /\ IsNumber(last_op.before[1].threshold)
    /\ get_watch(WATCHES, last_op.chat_id, last_op.asin)[1].name = "Tv"

====
